---- MODULE Spec2Model ----
(***************************************************************************)
(* A model of the single-table Texas Hold'em server (server.js): the table *)
(* registry, the per-hand game object, the turn timer and the websocket    *)
(* handlers.  Every JavaScript function is an operator from a table state  *)
(* (a record of TABLE, the turnTimer handle and the messages sent) to the  *)
(* table state it leaves; every inbound event is one action applying the   *)
(* whole handler.                                                          *)
(***************************************************************************)
EXTENDS Integers, Sequences, FiniteSets, TLC

\* ---------------------------------------------------------------- bounds
\* Connection ids (uuidv4 values) that may be in use at once.
MaxPlayers == 3
\* Hands that may be started in one run.
MaxHands == 1
\* Outcomes of the shuffle's random draws that are explored.
ShuffleKinds == 1

\* ------------------------------------------------------ program constants
NumSeats == 6
InitialChips == 1000
smallBlind == 10
bigBlind == 20
timeoutMs == 20000
\* JavaScript null (no player id, no seat, no deadline).
Null == -1
\* JavaScript undefined (a property the object does not have).
Undefined == -2

PIDs == 1..MaxPlayers
\* Seats a take-seat request may name (the last one is out of range).
SeatInputs == {0, 2, 3, 6}
HeadsUpSeatInputs == {0, 3, 6}
\* Action kinds a client may send ("bet" is not a kind the server knows).
ActionKinds == {"fold", "check", "call", "raise", "bet"}
\* Raise increments a client may send.
RaiseAmounts == {10, 605}
AmountsOf(action) == IF action = "raise" THEN RaiseAmounts ELSE {0}

Max(a, b) == IF a >= b THEN a ELSE b
Min(a, b) == IF a <= b THEN a ELSE b
MinOf(S) == CHOOSE x \in S : \A y \in S : x <= y

\* ---------------------------------------------------------------- cards
RANKS == <<"2", "3", "4", "5", "6", "7", "8", "9", "T", "J", "Q", "K", "A">>
DeckSuits == <<"s", "h", "d", "c">>

\* mkDeck(): for each rank, for each suit, push rank + suit.
mkDeck == [i \in 1..52 |-> RANKS[((i - 1) \div 4) + 1] \o DeckSuits[((i - 1) % 4) + 1]]

\* One swap of the Fisher-Yates loop: [deck[i], deck[j]] = [deck[j], deck[i]]
\* (i, j are the JavaScript 0-based indices).
swap(deck, i, j) == [deck EXCEPT ![i + 1] = deck[j + 1], ![j + 1] = deck[i + 1]]

\* shuffle(deck): for i = length-1 down to 1, swap deck[i] with deck[j],
\* j = floor(Math.random() * (i + 1)); draws[i] is that j.
RECURSIVE shuffleFrom(_, _, _)
shuffleFrom(deck, i, draws) ==
    IF i <= 0 THEN deck
    ELSE shuffleFrom(swap(deck, i, draws[i]), i - 1, draws)

shuffle(deck, draws) == shuffleFrom(deck, Len(deck) - 1, draws)

\* The outcomes of Math.random() explored: in the k-th, every draw j is the
\* multiple of k next below i (k = 1 keeps every card in place).
ShuffleDraws == {[i \in 1..51 |-> i - (i % k)] : k \in 1..ShuffleKinds}

\* ------------------------------------------------------- hand evaluator
\* c[0] and c[1] of a card string: its rank and suit characters.
RankOf == [c \in {mkDeck[i] : i \in 1..52} |->
             CHOOSE r \in {RANKS[i] : i \in 1..13} :
                \E s \in {DeckSuits[i] : i \in 1..4} : c = r \o s]
SuitOf == [c \in {mkDeck[i] : i \in 1..52} |->
             CHOOSE s \in {DeckSuits[i] : i \in 1..4} :
                \E r \in {RANKS[i] : i \in 1..13} : c = r \o s]

\* rankValue(r): RANKS.indexOf(r)
rankValue == [r \in {RANKS[i] : i \in 1..13} |-> (CHOOSE i \in 1..13 : RANKS[i] = r) - 1]

\* getCombinations(cards, k): helper(start, combo) pushes combo when it has
\* k cards, else calls helper(i + 1, combo.concat([cards[i]])) for i from
\* start (0-based) to the last card; loopFrom is that for loop.
RECURSIVE helper(_, _, _, _), loopFrom(_, _, _, _)
helper(cards, k, start, combo) ==
    IF Len(combo) = k THEN <<combo>>
    ELSE loopFrom(cards, k, start, combo)
loopFrom(cards, k, i, combo) ==
    IF i >= Len(cards) THEN <<>>
    ELSE helper(cards, k, i + 1, Append(combo, cards[i + 1]))
         \o loopFrom(cards, k, i + 1, combo)

getCombinations(cards, k) == helper(cards, k, 0, <<>>)

\* A variant of the straight check in which the ace of the wheel counts high.
highStraightAceHigh(values) ==
    IF Len(values) < 5 THEN -1
    ELSE IF 12 \in {values[i] : i \in 1..Len(values)} /\ SubSeq(values, 1, 4) = <<0, 1, 2, 3>>
    THEN 12
    ELSE IF values[5] - values[1] = 4 THEN values[5] ELSE -1

\* The straight check of evaluate5 (lines 641-654) on the sorted values of
\* the distinct ranks: the high value of the straight, or -1 when straight
\* stays false.
highStraightOf(values) ==
    IF Len(values) < 5 THEN -1
    ELSE LET hits == {i \in 0..(Len(values) - 5) : values[i + 5] - values[i + 1] = 4}
             inLoop == IF hits = {} THEN -1
                       ELSE values[(CHOOSE i \in hits : \A j \in hits : j <= i) + 5]
         IN IF 12 \in {values[i] : i \in 1..Len(values)}
               /\ SubSeq(values, 1, 4) = <<0, 1, 2, 3>>
            THEN 3
            ELSE inLoop

\* evaluate5(hand)
evaluate5(hand) ==
    LET byValue(a, b) == rankValue[a] < rankValue[b]
        ranks == SortSeq([i \in 1..Len(hand) |-> RankOf[hand[i]]], byValue)
        suits == [i \in 1..Len(hand) |-> SuitOf[hand[i]]]
        flush == \A i \in 1..Len(suits) : suits[i] = suits[1]
        \* [...new Set(ranks)]: the first card of each rank, in the sorted order
        first(i) == i = 1 \/ ranks[i] # ranks[i - 1]
        firsts == SelectSeq([i \in 1..Len(ranks) |-> i], first)
        uniqueRanks == [k \in 1..Len(firsts) |-> ranks[firsts[k]]]
        \* uniqueRanks.map(rankValue).sort(): already ascending
        values == [k \in 1..Len(firsts) |-> rankValue[uniqueRanks[k]]]
        highStraight == highStraightOf(values)
        straight == highStraight # -1
        \* Object.entries(counts): the ranks with their counts (the digits come
        \* first, then the letters as inserted: ascending here); sorted by
        \* count, largest first, then by rank, highest first
        entries == [k \in 1..Len(firsts) |->
                      <<uniqueRanks[k],
                        Cardinality({i \in 1..Len(ranks) : ranks[i] = uniqueRanks[k]})>>]
        before(a, b) == a[2] > b[2] \/ (a[2] = b[2] /\ rankValue[a[1]] > rankValue[b[1]])
        countsArr == SortSeq(entries, before)
        second == IF Len(countsArr) >= 2 THEN countsArr[2][2] ELSE Undefined
    IN IF straight /\ flush
       THEN IF highStraight = 12
            THEN [score |-> 9000000, handName |-> "Royal Flush"]
            ELSE [score |-> 8000000 + highStraight, handName |-> "Straight Flush"]
       ELSE IF countsArr[1][2] = 4
       THEN [score |-> 7000000 + rankValue[countsArr[1][1]], handName |-> "Four of a Kind"]
       ELSE IF countsArr[1][2] = 3 /\ second = 2
       THEN [score |-> 6000000 + rankValue[countsArr[1][1]], handName |-> "Full House"]
       ELSE IF flush
       THEN [score |-> 5000000 + rankValue[ranks[Len(ranks)]], handName |-> "Flush"]
       ELSE IF straight
       THEN [score |-> 4000000 + highStraight, handName |-> "Straight"]
       ELSE IF countsArr[1][2] = 3
       THEN [score |-> 3000000 + rankValue[countsArr[1][1]], handName |-> "Three of a Kind"]
       ELSE IF countsArr[1][2] = 2 /\ second = 2
       THEN [score |-> 2000000 + rankValue[countsArr[1][1]], handName |-> "Two Pair"]
       ELSE IF countsArr[1][2] = 2
       THEN [score |-> 1000000 + rankValue[countsArr[1][1]], handName |-> "One Pair"]
       ELSE [score |-> rankValue[ranks[Len(ranks)]], handName |-> "High Card"]

\* evaluate7(cards): the first combination with the largest score.
RECURSIVE bestFrom(_, _, _)
bestFrom(combos, i, best) ==
    IF i > Len(combos) THEN best
    ELSE LET result == evaluate5(combos[i])
         IN bestFrom(combos, i + 1,
                     IF result.score > best.score
                     THEN [score |-> result.score, handName |-> result.handName,
                           hand |-> combos[i]]
                     ELSE best)

evaluate7(cards) ==
    bestFrom(getCombinations(cards, 5), 1, [score |-> -1, handName |-> "", hand |-> <<>>])

\* ---------------------------------------------------------------- state
VARIABLES
    seats,        \* TABLE.seats: seat index 0..5 -> player id or Null
    players,      \* TABLE.players: registered player id -> player object
    game,         \* TABLE.game: the game object, or NoGame for null
    dealerIndex,  \* TABLE.dealerIndex
    turnTimer,    \* the turnTimer handle with its closure (curPid) and time left
    lastEvent,    \* the event just handled and the messages it sent
    hands,        \* history: hands started so far
    stackAtStart, \* history: each registered player's chips when the hand began
    acted,        \* history: players with an accepted check/call/raise this street
    evalCards,    \* evaluator: the 7 cards handed to evaluate7, if any
    evalBest,     \* evaluator: what evaluate7(evalCards) returned, or NotEvaluated
    evalHands,    \* evaluator: the 5-card hands to hand to evaluate5
    evalResults   \* evaluator: what evaluate5 returned for the hands scored so far

evalVars == <<evalCards, evalBest, evalHands, evalResults>>
tableVars == <<seats, players, game, dealerIndex, turnTimer, lastEvent, hands,
               stackAtStart, acted>>
vars == <<seats, players, game, dealerIndex, turnTimer, lastEvent, hands,
          stackAtStart, acted, evalCards, evalBest, evalHands, evalResults>>

\* TABLE.game = null
NoGame == [on |-> FALSE]
\* turnTimer = null, or a handle whose timeout has already run
NoTimer == [armed |-> FALSE, curPid |-> Null, left |-> 0]

\* The table state the handlers read and write, with the messages of this
\* event: err (an "error" message to the sender), ended (the description of
\* a "game-ended" summary), turn (the playerId of a "turn" broadcast).
Cur ==
    [seats |-> seats, players |-> players, game |-> game,
     dealerIndex |-> dealerIndex, turnTimer |-> turnTimer,
     err |-> "", ended |-> "", turn |-> Null]

\* ---------------------------------------------------------------- helpers
\* p && p.active && !p.folded
IsLive(s, pid) ==
    /\ pid \in DOMAIN s.players
    /\ s.players[pid].active
    /\ ~s.players[pid].folded

OrderPids(g) == [i \in 1..Len(g.seatOrder) |-> g.seatOrder[i].pId]

\* activePlayers(game): the ids, in seatOrder, of the registered, active,
\* unfolded players.
IsLiveIn(s) == [pid \in PIDs |-> IsLive(s, pid)]
activePlayers(s) ==
    LET live == IsLiveIn(s)
        keep(pid) == live[pid]
    IN SelectSeq(OrderPids(s.game), keep)

\* A variant that counts every seat of seatOrder, folded or not.
numActiveSeated(s) == Len(s.game.seatOrder)

\* numActive(game)
numActive(s) == Len(activePlayers(s))

\* nextActiveIndex(game, fromIndex)
nextActiveIndex(s, fromIndex) ==
    LET L == Len(s.game.seatOrder)
        hit == {step \in 1..L : IsLive(s, s.game.seatOrder[((fromIndex + step) % L) + 1].pId)}
    IN IF hit = {} THEN -1 ELSE (fromIndex + MinOf(hit)) % L

\* A variant that asks every contesting player for the full current bet.
everyoneMatchedExactly(s) ==
    LET aps == activePlayers(s)
    IN \A i \in 1..Len(aps) : s.players[aps[i]].bet = s.game.currentBet

\* everyoneMatchedCurrentBet(game)
everyoneMatchedCurrentBet(s) ==
    LET cur == s.game.currentBet
        aps == activePlayers(s)
    IN IF Len(aps) <= 1 THEN TRUE
       ELSE \A i \in 1..Len(aps) :
              LET p == s.players[aps[i]]
              IN p.bet = cur \/ (p.chips = 0 /\ p.bet <= cur)

\* g.seatOrder[g.turnIndex % g.seatOrder.length].pId
curPidOf(g) == g.seatOrder[(g.turnIndex % Len(g.seatOrder)) + 1].pId

\* --------------------------------------------------------------- turn timer
\* clearTurnTimer()
clearTurnTimer(s) ==
    LET s1 == [s EXCEPT !.turnTimer = NoTimer]
    IN IF s1.game.on THEN [s1 EXCEPT !.game.turnEnd = Null] ELSE s1

\* startTurnTimer(): turnEnd is kept as the time left to the deadline
\* (turnEnd - Date.now()), so that Date.now() + timeoutMs is timeoutMs.
startTurnTimer(s) ==
    IF ~s.game.on THEN s
    ELSE LET s1 == clearTurnTimer(s)
             curPid == curPidOf(s1.game)
         IN [s1 EXCEPT !.game.turnEnd = timeoutMs,
                       !.turn = curPid,
                       !.turnTimer = [armed |-> TRUE, curPid |-> curPid, left |-> timeoutMs]]

\* ------------------------------------------------------------- settlement
\* A variant that leaves the dealer button where it is.
awardPotAndEndKeepsDealer(s) ==
    IF ~s.game.on THEN s
    ELSE LET aps == activePlayers(s)
         IN IF Len(aps) = 0 THEN s
            ELSE LET s1 == clearTurnTimer([s EXCEPT !.players[aps[1]].chips = @ + s.game.pot,
                                                    !.ended = "last player standing"])
                 IN [s1 EXCEPT !.game = NoGame]

\* A variant that ends the hand without paying the pot out.
awardPotAndEndKeepsPot(s) ==
    IF ~s.game.on THEN s
    ELSE LET s1 == clearTurnTimer([s EXCEPT !.ended = "last player standing",
                                            !.dealerIndex = (s.dealerIndex + 1) % NumSeats])
         IN [s1 EXCEPT !.game = NoGame]

\* awardPotAndEnd()
awardPotAndEnd(s) ==
    IF ~s.game.on THEN s
    ELSE LET aps == activePlayers(s)
         IN IF Len(aps) = 0 THEN s
            ELSE LET winner == aps[1]
                     s1 == [s EXCEPT !.players[winner].chips = @ + s.game.pot,
                                     !.game.pot = 0,
                                     !.ended = "last player standing",
                                     !.dealerIndex = (s.dealerIndex + 1) % NumSeats]
                     s2 == clearTurnTimer(s1)
                 IN [s2 EXCEPT !.game = NoGame]

\* Hand.winners returns at least one of the hands it is given: the winners
\* among the players at the showdown are those of the drawn set, or all of
\* them when the drawn set names none of them.
winnersAmong(shown, winners) ==
    IF shown \cap winners = {} THEN shown ELSE shown \cap winners

\* A variant that hands the remainder of the split to one of the winners.
finishShowdownPaysRemainder(s, winners) ==
    IF ~s.game.on THEN s
    ELSE LET aps == activePlayers(s)
             winnerPlayers == winnersAmong({aps[i] : i \in 1..Len(aps)}, winners)
             first == MinOf(winnerPlayers)
             share == s.game.pot \div Cardinality(winnerPlayers)
             rest == s.game.pot % Cardinality(winnerPlayers)
             s1 == [s EXCEPT !.players =
                                [pid \in DOMAIN s.players |->
                                   IF pid \in winnerPlayers
                                   THEN [s.players[pid] EXCEPT
                                           !.chips = @ + share + (IF pid = first THEN rest ELSE 0)]
                                   ELSE s.players[pid]],
                             !.ended = "showdown",
                             !.dealerIndex = (s.dealerIndex + 1) % NumSeats]
         IN [clearTurnTimer(s1) EXCEPT !.game = NoGame]

\* finishShowdown(); winners is the set of players whose hand Hand.winners
\* (pokersolver, an external library) returns.
finishShowdown(s, winners) ==
    IF ~s.game.on THEN s
    ELSE LET aps == activePlayers(s)
         IN IF Len(aps) = 0 THEN s
            ELSE LET winnerPlayers == winnersAmong({aps[i] : i \in 1..Len(aps)}, winners)
                     share == s.game.pot \div Cardinality(winnerPlayers)
                     s1 == [s EXCEPT !.players =
                                        [pid \in DOMAIN s.players |->
                                           IF pid \in winnerPlayers
                                           THEN [s.players[pid] EXCEPT !.chips = @ + share]
                                           ELSE s.players[pid]],
                                     !.game.pot = 0,
                                     !.ended = "showdown",
                                     !.dealerIndex = (s.dealerIndex + 1) % NumSeats]
                     s2 == clearTurnTimer(s1)
                 IN [s2 EXCEPT !.game = NoGame]

\* ------------------------------------------------------------- game lifecycle
\* deck.pop() n times: the cards popped, in the order they are popped.
popped(deck, n) == [k \in 1..n |-> deck[Len(deck) + 1 - k]]
\* A variant of pop that reads the cards and leaves them on the deck.
afterPopKeepsCards(deck, n) == deck

\* The deck once n cards have been popped.
afterPop(deck, n) == SubSeq(deck, 1, Len(deck) - n)

\* The seatOrder of startGame: the occupied seats sorted by
\* (idx - TABLE.dealerIndex + 6) % 6.
seatKey(idx, dealer) == (idx - dealer + 6) % 6
RECURSIVE sortedSeats(_, _, _)
sortedSeats(sts, dealer, key) ==
    IF key >= NumSeats THEN <<>>
    ELSE LET idx == (key + dealer) % 6
         IN (IF sts[idx] # Null THEN <<[pId |-> sts[idx], idx |-> idx]>> ELSE <<>>)
            \o sortedSeats(sts, dealer, key + 1)

seatOrderOf(sts, dealer) == sortedSeats(sts, dealer, 0)

\* The two dealing passes of startGame: the k-th card popped goes to the
\* player at seatOrder[(k-1) % length] if that player is registered and active.
RECURSIVE dealFrom(_, _, _, _)
dealFrom(s, order, deck, k) ==
    IF k > 2 * Len(order) THEN [s EXCEPT !.game.deck = deck]
    ELSE LET pid == order[((k - 1) % Len(order)) + 1].pId
         IN IF pid \in DOMAIN s.players /\ s.players[pid].active
            THEN dealFrom([s EXCEPT !.players[pid].cards = Append(@, deck[Len(deck)])],
                          order, afterPop(deck, 1), k + 1)
            ELSE dealFrom(s, order, deck, k + 1)

\* The blinds of startGame.
postBlinds(s) ==
    LET g == s.game
        sb == g.seatOrder[1].pId
        bb == g.seatOrder[2].pId
        s1 == [s EXCEPT !.players[sb].chips = Max(0, @ - smallBlind),
                        !.players[sb].bet = smallBlind,
                        !.game.pot = @ + smallBlind]
    IN [s1 EXCEPT !.players[bb].chips = Max(0, @ - bigBlind),
                  !.players[bb].bet = bigBlind,
                  !.game.pot = @ + bigBlind,
                  !.game.currentBet = bigBlind,
                  !.game.minRaise = bigBlind]

\* A variant that gives the first turn to the seat after the small blind.
firstTurnAfterSmallBlind(order) == 1 % Len(order)

\* g.turnIndex = 2 % g.seatOrder.length (line 192)
firstTurnIndex(order) == 2 % Len(order)

\* startGame(); draws are the outcomes of Math.random() in shuffle.  (The
\* showdownComplete test of its first lines never finds a game: the flag is
\* set only just before TABLE.game is set to null.)
startGame(s, draws) ==
    IF s.game.on THEN s
    ELSE IF Cardinality({i \in 0..(NumSeats - 1) : s.seats[i] # Null}) < 2 THEN s
    ELSE LET order == seatOrderOf(s.seats, s.dealerIndex)
             g == [on |-> TRUE,
                   deck |-> shuffle(mkDeck, draws),
                   community |-> <<>>,
                   pot |-> 0,
                   dealerIndex |-> s.dealerIndex,
                   seatOrder |-> order,
                   stage |-> "preflop",
                   currentBet |-> 0,
                   minRaise |-> 20,
                   actionCount |-> 0,
                   turnIndex |-> 0,
                   turnEnd |-> Null]
             s1 == [s EXCEPT !.game = g,
                             !.players =
                                [pid \in DOMAIN s.players |->
                                   [s.players[pid] EXCEPT
                                      !.cards = <<>>,
                                      !.folded = ~(s.players[pid].seat # Null),
                                      !.active = (s.players[pid].seat # Null),
                                      !.bet = 0]]]
             s2 == dealFrom(s1, order, g.deck, 1)
             s3 == postBlinds(s2)
             s4 == [s3 EXCEPT !.game.turnIndex = firstTurnIndex(order)]
         IN startTurnTimer(s4)

\* A variant that goes from the preflop straight to the turn.
startBettingRoundSkipsFlop(s, stage) ==
    startTurnTimer([s EXCEPT !.game.stage = IF stage = "flop" THEN "turn" ELSE stage,
                             !.game.currentBet = 0,
                             !.game.actionCount = 0])

\* startBettingRound(stage)
startBettingRound(s, stage) ==
    IF ~s.game.on THEN s
    ELSE LET s1 == [s EXCEPT !.game.stage = stage,
                             !.game.currentBet = 0,
                             !.game.minRaise = bigBlind,
                             !.game.actionCount = 0,
                             !.game.turnIndex =
                                 (s.game.dealerIndex + 1) % Len(s.game.seatOrder)]
             live == IsLiveIn(s1)
             s2 == [s1 EXCEPT !.players =
                                 [pid \in DOMAIN s1.players |->
                                    IF live[pid] /\ pid \in {s1.game.seatOrder[i].pId :
                                                              i \in 1..Len(s1.game.seatOrder)}
                                    THEN [s1.players[pid] EXCEPT !.bet = 0]
                                    ELSE s1.players[pid]]]
             deck == s2.game.deck
             s3 == IF stage = "flop"
                   THEN [s2 EXCEPT !.game.community = @ \o SubSeq(popped(deck, 4), 2, 4),
                                   !.game.deck = afterPop(deck, 4)]
                   ELSE IF stage = "turn" \/ stage = "river"
                   THEN [s2 EXCEPT !.game.community = @ \o SubSeq(popped(deck, 2), 2, 2),
                                   !.game.deck = afterPop(deck, 2)]
                   ELSE s2
         IN IF numActive(s3) <= 1 THEN awardPotAndEnd(s3)
            ELSE startTurnTimer(s3)

\* ----------------------------------------------------------------- actions
\* advanceTurnAfterAction(kind)
advanceTurnAfterAction(s, kind, winners) ==
    IF ~s.game.on THEN s
    ELSE LET s1 == IF kind # "fold" THEN [s EXCEPT !.game.actionCount = @ + 1] ELSE s
             nextIdx == nextActiveIndex(s1, s1.game.turnIndex)
         IN IF nextIdx = -1 THEN awardPotAndEnd(s1)
            ELSE LET s2 == [s1 EXCEPT !.game.turnIndex = nextIdx]
                     aps == activePlayers(s2)
                     roundComplete ==
                         IF s2.game.currentBet = 0
                         THEN s2.game.actionCount >= Len(aps)
                         ELSE everyoneMatchedCurrentBet(s2)
                     s3 == [s2 EXCEPT !.game.actionCount = 0]
                 IN IF Len(aps) <= 1 THEN awardPotAndEnd(s2)
                    ELSE IF roundComplete
                    THEN CASE s3.game.stage = "preflop" -> startBettingRound(s3, "flop")
                           [] s3.game.stage = "flop" -> startBettingRound(s3, "turn")
                           [] s3.game.stage = "turn" -> startBettingRound(s3, "river")
                           [] s3.game.stage = "river" -> finishShowdown(s3, winners)
                           [] OTHER -> s3
                    ELSE startTurnTimer(s2)

\* processAction: no game in progress (lines 332-338).
noGameInProgress(s, playerId) == [s EXCEPT !.err = "No game in progress"]

\* A variant that cancels the timer before it answers.
notYourTurnAfterClear(s, playerId) == clearTurnTimer([s EXCEPT !.err = "Not your turn"])

\* processAction: the sender is not the player to act (lines 341-347).
notYourTurn(s, playerId) == [s EXCEPT !.err = "Not your turn"]

\* A variant that goes on to advance the turn after it answers.
raiseTooSmallAdvances(s, playerId) ==
    advanceTurnAfterAction([s EXCEPT !.err = "Raise must be at least minRaise"],
                           "raise", PIDs)

\* processAction: a raise below minRaise (lines 375-382); the timer has
\* already been cleared.
raiseTooSmall(s, playerId) ==
    startTurnTimer([s EXCEPT !.err = "Raise must be at least minRaise"])

\* processAction: an unknown action kind (lines 397-404).
unknownAction(s, playerId) == startTurnTimer([s EXCEPT !.err = "Unknown action"])

\* processAction: fold (lines 356-362), before the turn advances.
applyFold(s, playerId) == [s EXCEPT !.players[playerId].folded = TRUE]

\* processAction: check / call (lines 363-373), before the turn advances.
applyCall(s, playerId) ==
    LET p == s.players[playerId]
        toCall == Max(0, s.game.currentBet - p.bet)
        paid == Min(toCall, p.chips)
    IN IF toCall = 0 THEN s
       ELSE [s EXCEPT !.players[playerId].chips = @ - paid,
                      !.players[playerId].bet = @ + paid,
                      !.game.pot = @ + paid]

\* processAction: an accepted raise (lines 383-396), before the turn advances.
applyRaise(s, playerId, amount) ==
    LET p == s.players[playerId]
        toCall == Max(0, s.game.currentBet - p.bet)
        totalBet == p.bet + toCall + amount
        capped == (toCall + amount) > p.chips
        paid == IF capped THEN p.chips ELSE toCall + amount
        applied == IF capped THEN paid - toCall ELSE amount
    IN [s EXCEPT !.players[playerId].chips = @ - paid,
                 !.players[playerId].bet = totalBet,
                 !.game.pot = @ + paid,
                 !.game.currentBet = totalBet,
                 !.game.minRaise = applied]

\* processAction(playerId, action, amount)
processAction(s, playerId, action, amount, winners) ==
    IF ~s.game.on THEN noGameInProgress(s, playerId)
    ELSE IF curPidOf(s.game) # playerId THEN notYourTurn(s, playerId)
    ELSE LET s1 == clearTurnTimer(s)
         IN CASE action = "fold" ->
                   LET s2 == applyFold(s1, playerId)
                   IN IF numActive(s2) <= 1 THEN awardPotAndEnd(s2)
                      ELSE advanceTurnAfterAction(s2, "fold", winners)
              [] action = "call" \/ action = "check" ->
                   advanceTurnAfterAction(applyCall(s1, playerId), action, winners)
              [] action = "raise" ->
                   IF amount < s1.game.minRaise THEN raiseTooSmall(s1, playerId)
                   ELSE advanceTurnAfterAction(applyRaise(s1, playerId, amount),
                                               "raise", winners)
              [] OTHER -> unknownAction(s1, playerId)

\* The callback startTurnTimer hands to setTimeout (lines 110-121); curPid is
\* the player id its closure holds.
timerCallback(s, curPid, winners) ==
    LET s0 == [s EXCEPT !.turnTimer = NoTimer]
    IN IF curPid \in DOMAIN s0.players /\ ~s0.players[curPid].folded
       THEN LET s1 == [s0 EXCEPT !.players[curPid].folded = TRUE]
            IN IF numActive(s1) <= 1 THEN awardPotAndEnd(s1)
               ELSE advanceTurnAfterAction(s1, "fold", winners)
       ELSE s0

\* ------------------------------------------------------------ ws handlers
\* wss.on("connection"): a new player object under a fresh id.
onConnection(s, id) ==
    [s EXCEPT !.players =
        [pid \in DOMAIN s.players \cup {id} |->
           IF pid = id
           THEN [seat |-> Null, chips |-> InitialChips, cards |-> <<>>,
                 folded |-> TRUE, active |-> FALSE, bet |-> 0]
           ELSE s.players[pid]]]

\* ws.on("message"), type "take-seat"
takeSeat(s, id, seat) ==
    IF s.players[id].seat # Null
    THEN [s EXCEPT !.err = "Already seated, cannot take another seat"]
    ELSE IF s.game.on
    THEN [s EXCEPT !.err = "Game in progress: cannot change seats"]
    ELSE IF seat < 0 \/ seat > 5 THEN s
    ELSE IF s.seats[seat] # Null THEN s
    ELSE [s EXCEPT !.seats[seat] = id,
                   !.players[id].seat = seat,
                   !.players[id].active = TRUE,
                   !.players[id].folded = FALSE]

\* ws.on("message"), type "leave-seat"
leaveSeat(s, id) ==
    IF s.game.on
    THEN [s EXCEPT !.err = "Game in progress: cannot change seats"]
    ELSE IF s.players[id].seat # Null
    THEN [s EXCEPT !.seats[s.players[id].seat] = Null,
                   !.players[id].seat = Null,
                   !.players[id].active = FALSE,
                   !.players[id].folded = TRUE]
    ELSE s

\* TABLE.game.turnPlayerId as the close handler reads it: the game object
\* startGame builds has no such property (only the state broadcast computes
\* one), so the read yields undefined, which equals no player id.
gameTurnPlayerId(s) == Undefined

\* ws.on("close")
onClose(s, id, winners) ==
    IF id \notin DOMAIN s.players THEN s
    ELSE LET s1 == IF s.game.on
                   THEN LET a == [s EXCEPT !.players[id].folded = TRUE,
                                           !.players[id].active = FALSE]
                            b == IF gameTurnPlayerId(a) = id
                                 THEN advanceTurnAfterAction(clearTurnTimer(a), "fold", winners)
                                 ELSE a
                        IN IF b.game.on /\ numActive(b) <= 1 THEN awardPotAndEnd(b) ELSE b
                   ELSE s
             seat == s1.players[id].seat
             s2 == IF seat # Null THEN [s1 EXCEPT !.seats[seat] = Null] ELSE s1
         IN [s2 EXCEPT !.players = [pid \in DOMAIN s2.players \ {id} |-> s2.players[pid]]]

\* ------------------------------------------------------------------ events
\* The players still contesting the hand, as a set.
Contesting(s) == IF s.game.on THEN {pid \in PIDs : IsLive(s, pid)} \cap
                                   {s.game.seatOrder[i].pId : i \in 1..Len(s.game.seatOrder)}
                 ELSE {}

\* The sets Hand.winners may return at a showdown: any non-empty set of the
\* contesting players.
WinnerSets(s) ==
    IF s.game.on /\ s.game.stage = "river" /\ Contesting(s) # {}
    THEN SUBSET Contesting(s) \ {{}}
    ELSE {Contesting(s)}

\* The ids a game in progress or the timer's closure still refers to.
Referenced ==
    (IF game.on THEN {game.seatOrder[i].pId : i \in 1..Len(game.seatOrder)} ELSE {})
    \cup {turnTimer.curPid}

\* The table a state record holds, without the messages.
TableOf(s) == <<s.seats, s.players, s.game, s.dealerIndex, s.turnTimer>>

\* The state r the handler leaves becomes the next state; the event and its
\* messages are recorded, and the history variables follow.  An event that
\* sends nothing and changes nothing leaves no trace; one that changes
\* nothing and answers with an error is recorded as "rejected".  accepted
\* says that the event was a check, call or raise the server accepted.
Apply(r, kind, pid, accepted) ==
    IF r = Cur THEN UNCHANGED vars
    ELSE
    /\ UNCHANGED evalVars
    /\ seats' = r.seats
    /\ players' = r.players
    /\ game' = r.game
    /\ dealerIndex' = r.dealerIndex
    /\ turnTimer' = r.turnTimer
    /\ lastEvent' = [kind |-> IF TableOf(r) = TableOf(Cur) THEN "rejected" ELSE kind,
                     pid |-> pid, err |-> r.err, ended |-> r.ended, turn |-> r.turn]
    /\ hands' = IF ~game.on /\ r.game.on THEN hands + 1 ELSE hands
    /\ stackAtStart' =
          IF ~r.game.on THEN <<>>
          ELSE IF ~game.on THEN [pid2 \in DOMAIN players |-> players[pid2].chips]
          ELSE stackAtStart
    /\ acted' =
          IF ~r.game.on \/ ~game.on THEN {}
          ELSE IF r.game.stage # game.stage THEN {}
          ELSE IF accepted THEN acted \cup {curPidOf(game)}
          ELSE acted

\* The table after the module is loaded: no player, no game, button at 0.
TableInit ==
    /\ seats = [i \in 0..(NumSeats - 1) |-> Null]
    /\ players = <<>>
    /\ game = NoGame
    /\ dealerIndex = 0
    /\ turnTimer = NoTimer
    /\ lastEvent = [kind |-> "init", pid |-> Null, err |-> "", ended |-> "", turn |-> Null]
    /\ hands = 0
    /\ stackAtStart = <<>>
    /\ acted = {}

\* The evaluator has not been called (the server never calls it).
NotEvaluated == [score |-> Undefined, handName |-> "", hand |-> <<>>]
EvalIdle ==
    /\ evalCards = <<>>
    /\ evalBest = NotEvaluated
    /\ evalHands = <<>>
    /\ evalResults = <<>>

Init == TableInit /\ EvalIdle

\* A client connects: a fresh uuid, here the least id that neither the
\* registry nor the game in progress knows.
Connect(id) ==
    /\ id \notin DOMAIN players \cup Referenced
    /\ \A other \in PIDs : other < id => other \in DOMAIN players \cup Referenced
    /\ Apply(onConnection(Cur, id), "other", Null, FALSE)

\* A client's socket closes.
Close(id) ==
    /\ id \in DOMAIN players
    /\ \E w \in WinnerSets(Cur) : Apply(onClose(Cur, id, w), "close", id, FALSE)

\* A "take-seat" message.
TakeSeat(id, seat) ==
    /\ id \in DOMAIN players
    /\ Apply(takeSeat(Cur, id, seat), "other", Null, FALSE)

\* A "leave-seat" message.
LeaveSeat(id) ==
    /\ id \in DOMAIN players
    /\ Apply(leaveSeat(Cur, id), "other", Null, FALSE)

\* A "start-game" message.
StartGame(id, draws) ==
    /\ id \in DOMAIN players
    /\ Apply(startGame(Cur, draws), "other", Null, FALSE)

\* An "action" message: processAction(ws.id, data.action, data.amount || 0).
Action(id, action, amount) ==
    /\ id \in DOMAIN players
    /\ \E w \in WinnerSets(Cur) :
          LET r == processAction(Cur, id, action, amount, w)
          IN Apply(r, "action", Null,
                   r.err = "" /\ action \in {"check", "call", "raise"})

\* Time passes up to the armed timer's expiry.
Tick ==
    /\ turnTimer.armed
    /\ turnTimer.left > 0
    /\ LET s1 == [Cur EXCEPT !.turnTimer.left = 0]
           s2 == IF s1.game.on /\ s1.game.turnEnd # Null
                 THEN [s1 EXCEPT !.game.turnEnd = 0] ELSE s1
       IN Apply(s2, "other", Null, FALSE)

\* The armed timer's timeout runs.
TimerFires ==
    /\ turnTimer.armed
    /\ turnTimer.left = 0
    /\ \E w \in WinnerSets(Cur) :
          Apply(timerCallback(Cur, turnTimer.curPid, w), "timeout", turnTimer.curPid, FALSE)

\* The armed timer's deadline has been reached and its timeout has not run.
Due == turnTimer.armed /\ turnTimer.left = 0

\* The run goes on until the last hand it may start has been settled.  A
\* state that a rejected request left as it was is not explored further: its
\* successors are those of the state the request found.
Running(maxHands) ==
    /\ lastEvent.kind # "rejected"
    /\ hands < maxHands \/ game.on

\* The events of a run in which the clients use the ids in ids, ask for the
\* seats in seatInputs, and at most maxHands hands are started.  At a
\* deadline the events explored are the timeout and the requests of the
\* player to act that race it; every other event is explored before the
\* deadline or after the timeout has run (it reads neither the clock nor the
\* timer).
Step(ids, seatInputs, maxHands) ==
    \/ \E id \in ids : Running(maxHands) /\ ~Due /\ Connect(id)
    \/ \E id \in ids : Running(maxHands) /\ ~Due /\ Close(id)
    \/ \E id \in ids, seat \in seatInputs : Running(maxHands) /\ ~Due /\ TakeSeat(id, seat)
    \/ \E id \in ids : Running(maxHands) /\ ~Due /\ LeaveSeat(id)
    \/ \E id \in ids, draws \in ShuffleDraws :
          Running(maxHands) /\ ~Due /\ hands < maxHands /\ StartGame(id, draws)
    \/ \E id \in ids, action \in ActionKinds :
          \E amount \in AmountsOf(action) :
             Running(maxHands) /\ (Due => id = curPidOf(game)) /\ Action(id, action, amount)
    \/ Running(maxHands) /\ Tick
    \/ Running(maxHands) /\ TimerFires

Next == Step(PIDs, SeatInputs, MaxHands)

Spec == Init /\ [][Next]_vars

\* Heads-up play over one more hand: one connection fewer, two seats to
\* take, one hand more.
NextHeadsUp == Step(1..(MaxPlayers - 1), HeadsUpSeatInputs, MaxHands + 1)

SpecHeadsUp == Init /\ [][NextHeadsUp]_vars

\* ---------------------------------------------------- evaluator in use
\* The cards the evaluator is given: the spades of the royal flush and of the
\* low straights, the other deuces and a second six.
EvalDeck == <<"2s", "2h", "2d", "2c", "3s", "4s", "5s", "6s", "6d",
              "Ts", "Js", "Qs", "Ks", "As">>

\* The cards of deck at the positions in S, in deck order.
RECURSIVE cardsAt(_, _, _)
cardsAt(deck, S, i) ==
    IF i > Len(deck) THEN <<>>
    ELSE (IF i \in S THEN <<deck[i]>> ELSE <<>>) \o cardsAt(deck, S, i + 1)

\* The arrays of n distinct cards of deck, in deck order.
CardArrays(deck, n) ==
    {cardsAt(deck, S, 1) : S \in {T \in SUBSET (1..Len(deck)) : Cardinality(T) = n}}

\* Five-card hands to score: for each category the one the rules rank lowest
\* and the one they rank highest.
SampleHands ==
    {<<"2s", "3h", "4d", "5c", "7s">>, <<"As", "Kh", "Qd", "Jc", "9s">>,
     <<"2s", "2h", "3d", "4c", "5s">>, <<"As", "Ah", "Kd", "Qc", "Js">>,
     <<"3s", "3h", "2d", "2c", "4s">>, <<"As", "Ah", "Kd", "Kc", "Qs">>,
     <<"2s", "2h", "2d", "3c", "4s">>, <<"As", "Ah", "Ad", "Kc", "Qs">>,
     <<"As", "2h", "3d", "4c", "5s">>, <<"2s", "3h", "4d", "5c", "6s">>,
     <<"Ts", "Jh", "Qd", "Kc", "As">>,
     <<"2h", "3h", "4h", "5h", "7h">>, <<"Ah", "Kh", "Qh", "Jh", "9h">>,
     <<"2s", "2h", "2d", "3c", "3s">>, <<"As", "Ah", "Ad", "Kc", "Ks">>,
     <<"2s", "2h", "2d", "2c", "3s">>, <<"As", "Ah", "Ad", "Ac", "Ks">>,
     <<"Ah", "2h", "3h", "4h", "5h">>, <<"2h", "3h", "4h", "5h", "6h">>,
     <<"9h", "Th", "Jh", "Qh", "Kh">>, <<"Th", "Jh", "Qh", "Kh", "Ah">>}

\* A caller holds 7 cards to evaluate, or two 5-card hands to compare: any
\* five cards of EvalDeck and one of the sample hands.
InitEval ==
    /\ TableInit
    /\ evalBest = NotEvaluated
    /\ evalResults = <<>>
    /\ \/ evalCards \in CardArrays(EvalDeck, 7) /\ evalHands = <<>>
       \/ /\ evalCards = <<>>
          /\ evalHands \in {<<a, b>> : a \in CardArrays(EvalDeck, 5), b \in SampleHands}

\* evaluate7 is called on the 7 cards.
Evaluate7 ==
    /\ evalCards # <<>>
    /\ evalBest = NotEvaluated
    /\ evalBest' = evaluate7(evalCards)
    /\ UNCHANGED <<tableVars, evalCards, evalHands, evalResults>>

\* evaluate5 is called on the next hand to compare.
Evaluate5 ==
    /\ Len(evalResults) < Len(evalHands)
    /\ evalResults' = Append(evalResults, evaluate5(evalHands[Len(evalResults) + 1]))
    /\ UNCHANGED <<tableVars, evalCards, evalBest, evalHands>>

NextEval == Evaluate7 \/ Evaluate5

SpecEval == InitEval /\ [][NextEval]_vars

\* ------------------------------------------------------------------ claims
RECURSIVE SumOver(_, _)
SumOver(S, f) ==
    IF S = {} THEN 0
    ELSE LET x == CHOOSE y \in S : TRUE
         IN f[x] + SumOver(S \ {x}, f)

\* The chips in the registered players' stacks.
ChipsOf == [pid \in DOMAIN players |-> players[pid].chips]

\* C1: chip conservation.  At every point of a hand in which the players
\* registered are those registered when it started, the sum of their chips
\* plus the pot equals the sum of their chips when the hand started.
C1_ChipConservation ==
    (game.on /\ DOMAIN players = DOMAIN stackAtStart) =>
        SumOver(DOMAIN players, ChipsOf) + game.pot
            = SumOver(DOMAIN stackAtStart, stackAtStart)

\* C2: whenever a turn begins (the event broadcast a "turn" and was not a
\* rejected request), the player the turn is given to is registered, active
\* and not folded.
C2_TurnBeginsOnLivePlayer ==
    (game.on /\ lastEvent.err = "" /\ lastEvent.turn # Null) =>
        IsLive(Cur, lastEvent.turn)

\* Some action message of a connected player would change the table.
SomeActionAdvances ==
    \E id \in DOMAIN players, action \in ActionKinds :
       \E amount \in AmountsOf(action) :
          TableOf(processAction(Cur, id, action, amount, Contesting(Cur))) # TableOf(Cur)

\* C3: no state has a hand in progress in which no timer is armed and no
\* action message can advance the turn.
C3_NoStuckRound ==
    game.on => (turnTimer.armed \/ SomeActionAdvances)

\* The player the next state gives the turn to is registered, active and
\* not folded, and the timer is armed for that player.
NextTurnArmed ==
    LET next == curPidOf(game')
    IN /\ next \in DOMAIN players'
       /\ players'[next].active
       /\ ~players'[next].folded
       /\ turnTimer'.armed
       /\ turnTimer'.curPid = next
       /\ turnTimer'.left = timeoutMs

\* C4: when the contesting player whose turn it is disconnects while at
\* least two other contesting players remain, the hand goes on and either
\* the street advances or the turn moves to another contesting player for
\* whom a fresh timer is armed.
C4_ActorDisconnectAdvances ==
    [][(/\ game.on
        /\ IsLive(Cur, curPidOf(game))
        /\ Cardinality(Contesting(Cur) \ {curPidOf(game)}) >= 2
        /\ lastEvent'.kind = "close"
        /\ lastEvent'.pid = curPidOf(game))
       => /\ game'.on
          /\ \/ game'.stage # game.stage
             \/ curPidOf(game') # curPidOf(game) /\ NextTurnArmed]_vars

\* C5: after a timeout has folded the player to act and the hand has gone
\* on to a new turn, an action message of the timed-out player is rejected.
C5_LateActionRejected ==
    [][\A action \in ActionKinds : \A amount \in AmountsOf(action) :
         (/\ lastEvent.kind = "timeout"
          /\ game.on
          /\ turnTimer.armed
          /\ lastEvent.pid \in DOMAIN players
          /\ players[lastEvent.pid].folded
          /\ Action(lastEvent.pid, action, amount))
         => lastEvent'.err # ""]_vars

\* C6: during a hand, an action message of any kind and amount from a
\* connected player other than the one to act is answered "Not your turn"
\* and leaves the seats, every player object, the game object, the dealer
\* index and the armed timer unchanged.
C6_NotYourTurnRejected ==
    game.on =>
        \A id \in DOMAIN players \ {curPidOf(game)}, action \in ActionKinds :
           \A amount \in AmountsOf(action), w \in WinnerSets(Cur) :
              LET r == processAction(Cur, id, action, amount, w)
              IN /\ r.err = "Not your turn"
                 /\ TableOf(r) = TableOf(Cur)

\* A request was answered "Not your turn" during a hand.
C6_Witness ==
    /\ game.on
    /\ lastEvent.kind = "rejected"
    /\ lastEvent.err = "Not your turn"

\* The step is an accepted check or call of player pid, the player to act.
ChecksOrCalls(pid) ==
    /\ pid = curPidOf(game)
    /\ pid \in DOMAIN players
    /\ \E action \in {"check", "call"} : Action(pid, action, 0)

\* The step is a raise of the player to act.
Raises ==
    /\ curPidOf(game) \in DOMAIN players
    /\ \E amount \in RaiseAmounts : Action(curPidOf(game), "raise", amount)

\* C7: in a hand nobody has disconnected from, on a street with no bet, when
\* a step other than a raise advances the stage, every player still
\* contesting the hand has taken a check/call action on that street (before
\* this step, or by this step).
C7_StreetCompleteOnlyWhenAllActed ==
    [][(/\ game.on
        /\ DOMAIN stackAtStart \subseteq DOMAIN players'
        /\ game.currentBet = 0
        /\ game'.on
        /\ game'.stage # game.stage
        /\ ~Raises)
       => \A pid \in Contesting(Cur)' : pid \in acted \/ ChecksOrCalls(pid)]_vars

\* C8: during a hand, the chips plus the bet of every player registered
\* since it started do not exceed the stack the player held when it started.
C8_BetWithinStack ==
    game.on =>
        \A pid \in DOMAIN stackAtStart \cap DOMAIN players :
           players[pid].chips + players[pid].bet <= stackAtStart[pid]

\* C9: a raise of the player to act whose amount is below minRaise is
\* answered with an error; the hand goes on with turnIndex, pot, currentBet,
\* minRaise, actionCount, stage and every player object unchanged, and the
\* same player is to act.
C9_RaiseFloor ==
    (game.on /\ curPidOf(game) \in DOMAIN players) =>
        \A amount \in RaiseAmounts \cup {-1, 0, game.minRaise - 1}, w \in WinnerSets(Cur) :
           amount < game.minRaise =>
              LET r == processAction(Cur, curPidOf(game), "raise", amount, w)
              IN /\ r.err # ""
                 /\ r.game.on
                 /\ r.game.turnIndex = game.turnIndex
                 /\ r.game.pot = game.pot
                 /\ r.game.currentBet = game.currentBet
                 /\ r.game.minRaise = game.minRaise
                 /\ r.game.actionCount = game.actionCount
                 /\ r.game.stage = game.stage
                 /\ r.players = players
                 /\ curPidOf(r.game) = curPidOf(game)

\* A raise below minRaise was answered with its error during a hand.
C9_Witness ==
    /\ game.on
    /\ lastEvent.err = "Raise must be at least minRaise"

\* C10: a request answered with an error leaves the table, the game object
\* (its turnEnd included) and the armed timer (its expiry included) as they
\* were.
C10_ErrorLeavesTableUnchanged ==
    [][lastEvent'.err # "" =>
          UNCHANGED <<seats, players, game, dealerIndex, turnTimer>>]_vars

\* C11: while a hand is in progress no event changes any entry of
\* TABLE.seats.
C11_SeatsFixedDuringHand ==
    [][game.on => seats' = seats]_vars

\* The street that follows a street.
StageAfter(stage) ==
    CASE stage = "preflop" -> "flop"
      [] stage = "flop" -> "turn"
      [] stage = "turn" -> "river"
      [] OTHER -> "none"

CappedBlind(blind, stack) == Min(blind, stack)

\* C13: when a hand starts, seatOrder[0] posts the small blind and
\* seatOrder[1] the big blind, each capped at the poster's stack: the
\* poster's chips decrease by min(blind, stack), the poster's bet is that
\* amount and the pot is the sum of the two; currentBet and minRaise are the
\* big blind.
C13_BlindsCappedAtStack ==
    [][(~game.on /\ game'.on) =>
          LET sb == game'.seatOrder[1].pId
              bb == game'.seatOrder[2].pId
              paidSb == CappedBlind(smallBlind, players[sb].chips)
              paidBb == CappedBlind(bigBlind, players[bb].chips)
          IN /\ players'[sb].chips = players[sb].chips - paidSb
             /\ players'[bb].chips = players[bb].chips - paidBb
             /\ players'[sb].bet = paidSb
             /\ players'[bb].bet = paidBb
             /\ game'.pot = paidSb + paidBb
             /\ game'.currentBet = bigBlind
             /\ game'.minRaise = bigBlind]_vars

\* C14: when a hand starts with n >= 2 seated players, turnIndex is 2 mod n
\* and the turn is given to the player there; with 2 seated players holding
\* at least 20 chips each, the pot is 30, the stacks are debited by 10 and
\* 20, currentBet is 20 and the first to act is seatOrder[0], the small
\* blind.
C14_FirstPreflopActor ==
    [][(~game.on /\ game'.on) =>
          LET order == game'.seatOrder
              n == Len(order)
              sb == order[1].pId
              bb == order[2].pId
          IN /\ n >= 2
             /\ n = Cardinality({i \in 0..(NumSeats - 1) : seats[i] # Null})
             /\ game'.stage = "preflop"
             /\ game'.turnIndex = 2 % n
             /\ lastEvent'.turn = order[(2 % n) + 1].pId
             /\ turnTimer'.armed /\ turnTimer'.curPid = order[(2 % n) + 1].pId
             /\ (n = 2 /\ players[sb].chips >= bigBlind /\ players[bb].chips >= bigBlind) =>
                   /\ game'.pot = 30
                   /\ players'[sb].chips = players[sb].chips - 10
                   /\ players'[bb].chips = players[bb].chips - 20
                   /\ game'.currentBet = 20
                   /\ lastEvent'.turn = sb]_vars

\* A heads-up hand has just started, the small blind to act.
C14_Witness ==
    /\ game.on
    /\ Len(game.seatOrder) = 2
    /\ game.stage = "preflop"
    /\ game.actionCount = 0
    /\ game.pot = 30
    /\ lastEvent.turn = game.seatOrder[1].pId

\* The players of the hand in progress who are registered, active and not
\* folded once the step is taken.
ContestingAfter ==
    {pid \in Contesting(Cur) : /\ pid \in DOMAIN players'
                               /\ players'[pid].active
                               /\ ~players'[pid].folded}

\* C15: whenever a step (a fold, a timeout fold or a disconnection) takes a
\* hand from two or more contesting players to exactly one, the hand is
\* destroyed in that step, that player's chips grow by exactly the pot and
\* no other player's chips change, whatever the stage and the bets.
C15_LastPlayerTakesPot ==
    [][(/\ game.on
        /\ Cardinality(Contesting(Cur)) >= 2
        /\ Cardinality(ContestingAfter) = 1)
       => /\ ~game'.on
          /\ turnTimer' = NoTimer
          /\ lastEvent'.kind \in {"action", "timeout", "close"}
          /\ lastEvent'.ended = "last player standing"
          /\ \A pid \in DOMAIN players' :
                players'[pid].chips =
                    players[pid].chips + (IF pid \in ContestingAfter THEN game.pot ELSE 0)]_vars

\* A hand has just been settled for the last player standing.
C15_Witness ==
    /\ ~game.on
    /\ lastEvent.ended = "last player standing"

\* What the step that reaches the showdown may have moved from the stack of
\* the player to act into the pot: nothing (check, fold, timeout), a call, a
\* raise, or the whole stack.
PaidAtShowdown ==
    LET actor == curPidOf(game)
    IN IF actor \notin DOMAIN players THEN {0}
       ELSE LET p == players[actor]
                toCall == Max(0, game.currentBet - p.bet)
            IN {0, Min(toCall, p.chips), p.chips}
               \cup {toCall + amount : amount \in RaiseAmounts}

\* C16: a showdown with k >= 1 winners among the contesting players and
\* pot P (the last payment of the player to act included) adds exactly
\* floor(P / k) to each winner's chips and nothing to anybody else's; the
\* remainder P mod k is awarded to nobody.
C16_ShowdownSplit ==
    [][(game.on /\ lastEvent'.ended = "showdown") =>
          /\ ~game'.on
          /\ \E paid \in PaidAtShowdown, winners \in SUBSET ContestingAfter \ {{}} :
                \A pid \in DOMAIN players' :
                   players'[pid].chips =
                       players[pid].chips
                       - (IF pid = curPidOf(game) THEN paid ELSE 0)
                       + (IF pid \in winners
                          THEN (game.pot + paid) \div Cardinality(winners) ELSE 0)]_vars

\* A showdown among three players who brought 1000 chips each has split an
\* odd pot between two winners: one chip has left play.
C16_Witness ==
    /\ ~game.on
    /\ lastEvent.ended = "showdown"
    /\ Cardinality(DOMAIN players) = 3
    /\ SumOver(DOMAIN players, ChipsOf) = 3 * InitialChips - 1

\* The seats taken.
Occupied == {i \in 0..(NumSeats - 1) : seats[i] # Null}

\* The table state the handlers find once the step is taken.
CurAfter ==
    [seats |-> seats', players |-> players', game |-> game',
     dealerIndex |-> dealerIndex', turnTimer |-> turnTimer',
     err |-> "", ended |-> "", turn |-> Null]

\* C17: every settlement (the step that destroys the game object) advances
\* TABLE.dealerIndex by one modulo 6, sends a "game-ended" summary and leaves
\* no timer armed, and a start-game is accepted again when two seats are
\* taken; dealerIndex changes in no other step, so it equals the number of
\* hands completed modulo 6.
C17_DealerRotation ==
    [][/\ (game.on /\ ~game'.on) =>
             /\ dealerIndex' = (dealerIndex + 1) % NumSeats
             /\ turnTimer' = NoTimer
             /\ lastEvent'.ended \in {"showdown", "last player standing"}
             /\ Cardinality(Occupied') >= 2 =>
                   \A draws \in ShuffleDraws : startGame(CurAfter, draws).game.on
       /\ dealerIndex' # dealerIndex => (game.on /\ ~game'.on)
       /\ dealerIndex' = (hands' - (IF game'.on THEN 1 ELSE 0)) % NumSeats]_vars

\* Two hands have been completed and the button has moved twice.
C17_Witness ==
    /\ ~game.on
    /\ hands = 2
    /\ dealerIndex = 2
    /\ lastEvent.ended # ""

\* The number of seats from the first seat after the dealer button to seat
\* idx, clockwise: 0 for the seat after the button, 5 for the button's seat.
StepsAfterButton(idx, dealer) == (idx - dealer - 1 + NumSeats) % NumSeats

\* C18: when a hand starts, seatOrder holds exactly the occupied seats with
\* their players, in clockwise order from the first occupied seat strictly
\* after the dealer button (the button's own seat comes last).
C18_SeatOrderAfterButton ==
    [][(~game.on /\ game'.on) =>
          LET order == game'.seatOrder
          IN /\ Len(order) = Cardinality(Occupied)
             /\ {order[i].idx : i \in 1..Len(order)} = Occupied
             /\ \A i \in 1..Len(order) : order[i].pId = seats[order[i].idx]
             /\ \A i, j \in 1..Len(order) :
                   i < j => StepsAfterButton(order[i].idx, dealerIndex)
                             < StepsAfterButton(order[j].idx, dealerIndex)]_vars

\* The position in seatOrder of the first seat after the dealer button.
FirstAfterButton(g) ==
    CHOOSE i \in 1..Len(g.seatOrder) :
       \A j \in 1..Len(g.seatOrder) :
          StepsAfterButton(g.seatOrder[i].idx, g.dealerIndex)
             <= StepsAfterButton(g.seatOrder[j].idx, g.dealerIndex)

\* The resets of a street transition: currentBet, actionCount and every
\* contesting player's bet are 0 and minRaise is the big blind.
StreetReset ==
    /\ game'.currentBet = 0
    /\ game'.actionCount = 0
    /\ game'.minRaise = bigBlind
    /\ \A pid \in Contesting(CurAfter) : players'[pid].bet = 0

\* C19: on every street transition the turn is given to the seat of
\* seatOrder that comes first after the dealer button, and currentBet,
\* actionCount, minRaise and the contesting players' bets are reset.
C19_StreetStartsAfterButton ==
    [][(game.on /\ game'.on /\ game'.stage # game.stage) =>
          /\ StreetReset
          /\ (game'.turnIndex % Len(game'.seatOrder)) + 1 = FirstAfterButton(game')
          /\ lastEvent'.turn = game'.seatOrder[FirstAfterButton(game')].pId]_vars

\* On every street transition the resets are made (the part of C19 the
\* code keeps).
StreetResetHolds ==
    [][(game.on /\ game'.on /\ game'.stage # game.stage) => StreetReset]_vars

\* The table once processAction has applied an accepted action of the
\* player to act, before it advances the turn.
AfterAccepted(action, amount) ==
    LET s1 == clearTurnTimer(Cur)
        pid == curPidOf(game)
    IN CASE action = "fold" -> applyFold(s1, pid)
         [] action = "raise" -> applyRaise(s1, pid, amount)
         [] OTHER -> applyCall(s1, pid)

\* Every contesting player of s has bet the current bet, or is all-in with
\* no more than the current bet.
AllMatched(s) ==
    \A pid \in Contesting(s) :
       \/ s.players[pid].bet = s.game.currentBet
       \/ s.players[pid].chips = 0 /\ s.players[pid].bet <= s.game.currentBet

\* The street of the state the handlers found is over in r: the next street
\* has begun, or the showdown has settled the hand.
StreetOver(r) ==
    \/ r.game.on /\ r.game.stage # game.stage
    \/ ~r.game.on /\ r.ended = "showdown"

\* C20: after an accepted action that leaves a standing bet (currentBet > 0)
\* and at least two contesting players, the street is over exactly when
\* every contesting player has bet == currentBet or has chips == 0 with
\* bet <= currentBet.
C20_StandingBetCompletion ==
    (game.on /\ curPidOf(game) \in DOMAIN players) =>
        \A action \in {"fold", "check", "call", "raise"} :
           \A amount \in AmountsOf(action), w \in WinnerSets(Cur) :
              LET r == processAction(Cur, curPidOf(game), action, amount, w)
                  mid == AfterAccepted(action, amount)
              IN (/\ r.err = ""
                  /\ mid.game.currentBet > 0
                  /\ Cardinality(Contesting(mid)) >= 2)
                 => (StreetOver(r) <=> AllMatched(mid))

\* An action on a standing bet has just completed the preflop round.
C20_Witness ==
    /\ game.on
    /\ game.stage = "flop"
    /\ game.actionCount = 0
    /\ lastEvent.kind = "action"
    /\ lastEvent.turn # Null

\* The table once processAction has applied a raise of the player to act,
\* before it advances the turn.
AfterRaise(amount) == applyRaise(clearTurnTimer(Cur), curPidOf(game), amount)

\* C21: when the player to act raises by amount >= minRaise, the chips
\* committed are min(toCall + amount, the player's chips); the player's
\* stack decreases and the pot and the player's street bet each increase by
\* exactly that; afterwards currentBet is the player's new street bet and
\* minRaise is the increment applied (committed minus toCall).
C21_AcceptedRaise ==
    (game.on /\ curPidOf(game) \in DOMAIN players) =>
        \A amount \in RaiseAmounts :
           amount >= game.minRaise =>
              LET pid == curPidOf(game)
                  p == players[pid]
                  toCall == Max(0, game.currentBet - p.bet)
                  committed == Min(toCall + amount, p.chips)
                  r == AfterRaise(amount)
              IN /\ r.players[pid].chips = p.chips - committed
                 /\ r.game.pot = game.pot + committed
                 /\ r.players[pid].bet = p.bet + committed
                 /\ r.game.currentBet = r.players[pid].bet
                 /\ r.game.minRaise = committed - toCall

\* The five-card subsets of the 7 cards.
FiveOf(cards) == CardArrays(cards, 5)

\* The rank values of a five-card hand, as a set, and how many cards of the
\* hand have value v.
ValuesOf(hand) == {rankValue[RankOf[hand[i]]] : i \in 1..Len(hand)}
CountOf(hand, v) == Cardinality({i \in 1..Len(hand) : rankValue[RankOf[hand[i]]] = v})
IsFlush(hand) == \A i \in 1..Len(hand) : SuitOf[hand[i]] = SuitOf[hand[1]]
IsWheel(hand) == ValuesOf(hand) = {0, 1, 2, 3, 12}
IsStraight(hand) ==
    IsWheel(hand) \/ \E low \in 0..8 : ValuesOf(hand) = low..(low + 4)
\* The multiset of the counts, as the set of <<count, how many ranks>>.
HasCounts(hand, c, n) == Cardinality({v \in ValuesOf(hand) : CountOf(hand, v) = c}) = n

\* The category of a five-card hand by the rules of poker: 8 for a straight
\* flush (the royal flush included) down to 0 for a high card.
Category(hand) ==
    IF IsStraight(hand) /\ IsFlush(hand) THEN 8
    ELSE IF HasCounts(hand, 4, 1) THEN 7
    ELSE IF HasCounts(hand, 3, 1) /\ HasCounts(hand, 2, 1) THEN 6
    ELSE IF IsFlush(hand) THEN 5
    ELSE IF IsStraight(hand) THEN 4
    ELSE IF HasCounts(hand, 3, 1) THEN 3
    ELSE IF HasCounts(hand, 2, 2) THEN 2
    ELSE IF HasCounts(hand, 2, 1) THEN 1
    ELSE 0

\* The scores evaluate5 gives the five-card subsets of the 7 cards.
ScoresOf(cards) == {evaluate5(h).score : h \in FiveOf(cards)}

\* C22: evaluate7 returns the maximum evaluate5 score over the 21 five-card
\* subsets of its 7 distinct cards; of two five-card hands the one of the
\* higher category has the higher evaluate5 score; and the wheel A-2-3-4-5
\* scores below every other straight of its category.
C22_EvaluatorOrder ==
    /\ evalBest # NotEvaluated =>
          /\ Cardinality(FiveOf(evalCards)) = 21
          /\ evalBest.score \in ScoresOf(evalCards)
          /\ \A score \in ScoresOf(evalCards) : score <= evalBest.score
          /\ evalBest.hand \in FiveOf(evalCards)
          /\ evaluate5(evalBest.hand).score = evalBest.score
    /\ Len(evalResults) = 2 =>
          LET a == evalHands[1]
              b == evalHands[2]
          IN /\ Category(a) > Category(b) => evalResults[1].score > evalResults[2].score
             /\ Category(a) < Category(b) => evalResults[1].score < evalResults[2].score
             /\ (Category(a) = Category(b) /\ IsWheel(a) /\ IsStraight(b) /\ ~IsWheel(b))
                => evalResults[1].score < evalResults[2].score
             /\ (Category(a) = Category(b) /\ IsWheel(b) /\ IsStraight(a) /\ ~IsWheel(a))
                => evalResults[1].score > evalResults[2].score

\* evaluate7 has picked the six-high straight flush out of 7 cards that
\* also hold the wheel straight flush.
C22_Witness ==
    /\ evalBest # NotEvaluated
    /\ evalBest.score = 8000004
    /\ Category(evalBest.hand) = 8
    /\ \E h \in FiveOf(evalCards) : IsWheel(h) /\ Category(h) = 8

\* The step is an action the server accepted from player pid.
AcceptedFrom(pid) ==
    /\ curPidOf(game) = pid
    /\ lastEvent'.kind = "action"
    /\ lastEvent'.err = ""

\* C23: once a player has folded in a hand (by action, timeout or
\* disconnection), no step that keeps the hand going accepts an action of
\* that player or changes that player's chips or bet.
C23_FoldedStaysOut ==
    [][\A pid \in DOMAIN players \cap DOMAIN players' :
          (game.on /\ game'.on /\ players[pid].folded) =>
             /\ ~AcceptedFrom(pid)
             /\ players'[pid].chips = players[pid].chips
             /\ players'[pid].bet = players[pid].bet]_vars

\* C24: whenever a hand is in progress between two events, at least two
\* registered, active, unfolded players of seatOrder remain; a step that
\* leaves one or none of the contesting players settles the hand and
\* destroys the game object.
C24_TwoContestingWhileActive ==
    /\ [](game.on => Cardinality(Contesting(Cur)) >= 2)
    /\ [][(game.on /\ Cardinality(ContestingAfter) <= 1) =>
             /\ ~game'.on
             /\ lastEvent'.ended # ""
             /\ turnTimer' = NoTimer]_vars

\* A disconnection has left one contesting player and the hand has been
\* settled for that player.
C24_Witness ==
    /\ ~game.on
    /\ lastEvent.kind = "close"
    /\ lastEvent.ended = "last player standing"
    /\ hands = 1

\* A raise of the player to act with a zero or negative increment is
\* answered with an error.
NoEmptyRaise ==
    curPidOf(game) \in DOMAIN players =>
        \A amount \in {-1, 0}, w \in WinnerSets(Cur) :
           processAction(Cur, curPidOf(game), "raise", amount, w).err # ""

\* C25: in every state of a hand minRaise is a strictly positive integer, so
\* that a raise with a zero or negative increment is not accepted, and no
\* step decreases currentBet within a street.
C25_MinRaisePositive ==
    /\ [](game.on => (game.minRaise \in Nat /\ game.minRaise > 0 /\ NoEmptyRaise))
    /\ [][(game.on /\ game'.on /\ game'.stage = game.stage) =>
             game'.currentBet >= game.currentBet]_vars

\* The cards of a sequence, as a set.
CardsIn(cards) == {cards[i] : i \in 1..Len(cards)}

\* The players of the hand in progress who are still registered.
DealtIn == {game.seatOrder[i].pId : i \in 1..Len(game.seatOrder)} \cap DOMAIN players

\* The number of cards in the draw pile, on the board and in the registered
\* players' hands, and the set of those cards.
HoleCount == [pid \in DOMAIN players |-> Len(players[pid].cards)]
CardsCounted == Len(game.deck) + Len(game.community) + SumOver(DOMAIN players, HoleCount)
CardsSeen ==
    CardsIn(game.deck) \cup CardsIn(game.community)
        \cup UNION {CardsIn(players[pid].cards) : pid \in DOMAIN players}

\* The community cards a stage shows.
BoardSize(stage) ==
    CASE stage = "preflop" -> 0
      [] stage = "flop" -> 3
      [] stage = "turn" -> 4
      [] stage = "river" -> 5
      [] OTHER -> -1

\* C26: in every state of a hand no card appears twice among the draw pile,
\* the hole cards and the community cards, all of them cards of the 52-card
\* deck; every player dealt in holds exactly 2 hole cards; the community has
\* 0, 3, 4, 5 cards in the stages preflop, flop, turn, river; and the draw
\* pile shrinks by 4 on the flop and by 2 on the turn and on the river.
C26_CardAccounting ==
    /\ [](game.on =>
             /\ Cardinality(CardsSeen) = CardsCounted
             /\ CardsSeen \subseteq CardsIn(mkDeck)
             /\ \A pid \in DealtIn : Len(players[pid].cards) = 2
             /\ Len(game.community) = BoardSize(game.stage))
    /\ [][(game.on /\ game'.on) =>
             Len(game'.deck) = Len(game.deck) -
                (IF game'.stage = game.stage THEN 0
                 ELSE IF game'.stage = "flop" THEN 4 ELSE 2)]_vars

\* A three-handed hand has reached the river: 6 hole cards, 5 community
\* cards, 3 burnt cards and 38 cards in the draw pile.
C26_Witness ==
    /\ game.on
    /\ game.stage = "river"
    /\ Len(game.seatOrder) = 3
    /\ Len(game.community) = 5
    /\ Len(game.deck) = 38

====
